---------------------------- MODULE Spec2Model ----------------------------
(***************************************************************************)
(* Model of the .DS_Store decoder in src/src/main.rs (DsStoreParser).      *)
(*                                                                         *)
(* A usize is modelled as the contents of a 64-bit register: a sequence of *)
(* UsizeLimbs limbs of 16 bits, least significant limb first.  Blocks of   *)
(* the file decode to values up to 2^32-1 and the decoder's intermediate   *)
(* values reach 2^40, so the arithmetic is carried out on the limbs.       *)
(***************************************************************************)
EXTENDS Integers, Sequences, FiniteSets, TLC

\* static BYTE_SIZE: usize = 8;
BYTE_SIZE == 8

\* usize is 64 bits wide: UsizeLimbs limbs of 16 bits, least significant first
UsizeLimbs == 4

LimbBase == 65536

\* DsStoreParser::new: the fields of the parser
file_signature == <<0, 0, 0, 1, 66, 117, 100, 49>>

record_terminator == <<118, 83, 114, 110, 108, 111, 110, 103, 0, 0, 0, 1>>

block_size == 4

root_offset_location == 8

root_offset_location_check == 16

index_padding == 256

indet_length == 4

---------------------------------------------------------------------------
(* usize arithmetic on limbs *)

Pow2(k) == 2 ^ k

\* the usize holding the natural n (n < 2^31)
U(n) == <<n % LimbBase, n \div LimbBase, 0, 0>>

\* x is below 2^23: it fits a natural the arithmetic below can work on
IsSmall(x) == x[4] = 0 /\ x[3] = 0 /\ x[2] < 128

\* the natural held by a small x
ToNat(x) == x[1] + LimbBase * x[2]

RECURSIVE AddLimbs(_, _, _, _)
AddLimbs(x, y, k, carry) ==
    IF k > UsizeLimbs THEN <<>>
    ELSE LET s == x[k] + y[k] + carry
         IN  <<s % LimbBase>> \o AddLimbs(x, y, k + 1, s \div LimbBase)

\* x + y (wrapping at the register width, which no value of the decoder reaches)
UAdd(x, y) == AddLimbs(x, y, 1, 0)

RECURSIVE SubLimbs(_, _, _, _)
SubLimbs(x, y, k, borrow) ==
    IF k > UsizeLimbs THEN <<>>
    ELSE LET d == x[k] - y[k] - borrow
         IN  <<d % LimbBase>> \o SubLimbs(x, y, k + 1, IF d < 0 THEN 1 ELSE 0)

\* x - y, used for x >= y only
USub(x, y) == SubLimbs(x, y, 1, 0)

RECURSIVE LtFrom(_, _, _)
LtFrom(x, y, k) ==
    IF k < 1 THEN FALSE
    ELSE IF x[k] # y[k] THEN x[k] < y[k]
    ELSE LtFrom(x, y, k - 1)

\* x < y
ULt(x, y) == LtFrom(x, y, UsizeLimbs)

ULe(x, y) == ~ULt(y, x)

\* x << k for 0 <= k <= 8
ShlBits(x, k) ==
    LET lo(v) == (v * Pow2(k)) % LimbBase
        hi(v) == v \div Pow2(16 - k)
    IN  <<lo(x[1]), lo(x[2]) + hi(x[1]), lo(x[3]) + hi(x[2]), lo(x[4]) + hi(x[3])>>

\* x >> k for 0 <= k <= 8
ShrBits(x, k) ==
    LET hi(v) == v \div Pow2(k)
        lo(v) == (v % Pow2(k)) * Pow2(16 - k)
    IN  <<hi(x[1]) + lo(x[2]), hi(x[2]) + lo(x[3]), hi(x[3]) + lo(x[4]), hi(x[4])>>

RECURSIVE Shl(_, _)
Shl(x, n) == IF n <= 8 THEN ShlBits(x, n) ELSE Shl(ShlBits(x, 8), n - 8)

RECURSIVE Shr(_, _)
Shr(x, n) == IF n <= 8 THEN ShrBits(x, n) ELSE Shr(ShrBits(x, 8), n - 8)

RECURSIVE XorLimb(_, _)
XorLimb(a, b) ==
    IF a = 0 THEN b
    ELSE IF b = 0 THEN a
    ELSE ((a + b) % 2) + 2 * XorLimb(a \div 2, b \div 2)

RECURSIVE AndLimb(_, _)
AndLimb(a, b) ==
    IF a = 0 \/ b = 0 THEN 0
    ELSE ((a % 2) * (b % 2)) + 2 * AndLimb(a \div 2, b \div 2)

UXor(x, y) == <<XorLimb(x[1], y[1]), XorLimb(x[2], y[2]), XorLimb(x[3], y[3]), XorLimb(x[4], y[4])>>

UAnd(x, y) == <<AndLimb(x[1], y[1]), AndLimb(x[2], y[2]), AndLimb(x[3], y[3]), AndLimb(x[4], y[4])>>

RECURSIVE MulLimbs(_, _, _, _)
MulLimbs(x, m, k, carry) ==
    IF k > UsizeLimbs THEN <<>>
    ELSE LET p == x[k] * m + carry
         IN  <<p % LimbBase>> \o MulLimbs(x, m, k + 1, p \div LimbBase)

\* x * m for a natural m < 2^15
UMulNat(x, m) == MulLimbs(x, m, 1, 0)

RECURSIVE UMod(_, _)
\* x % y for y > 0
UMod(x, y) ==
    IF ULt(x, y) THEN x
    ELSE IF IsSmall(x) THEN U(ToNat(x) % ToNat(y))
    ELSE UMod(USub(x, y), y)

---------------------------------------------------------------------------
(* results *)

Ok(v) == [ok |-> TRUE, val |-> v]

Err(e) == [ok |-> FALSE, err |-> e]

---------------------------------------------------------------------------
(* the pure functions of DsStoreParser *)

\* buf[k] with the source's 0-based index
Byte(b, k) == b[k + 1]

\* buf[from..to], a slice with 0-based bounds, to exclusive
Slice(b, from, to) == SubSeq(b, from + 1, to)

\* if buf.len() < (offset + self.block_size)
LenBelow(b, end) == ULt(U(Len(b)), end)

BlockOutOfRangeOffByOne(b, off) == ULe(U(Len(b)), UAdd(off, U(block_size)))

BlockOutOfRange(b, off) == LenBelow(b, UAdd(off, U(block_size)))

RECURSIVE BlockLoop(_, _, _, _)
\* for i in 0..self.block_size { block ^= buf[offset + i] as usize; block <<= BYTE_SIZE; }
BlockLoop(b, off, k, block) ==
    IF k >= block_size THEN block
    ELSE BlockLoop(b, off, k + 1, Shl(UXor(block, U(Byte(b, off + k))), BYTE_SIZE))

BlockValueNoFinalShift(b, off) == BlockLoop(b, off, 0, U(0))

\* the loop followed by block >>= BYTE_SIZE
BlockValue(b, off) == Shr(BlockLoop(b, off, 0, U(0)), BYTE_SIZE)

block_to_usize(b, off) ==
    IF BlockOutOfRange(b, off) THEN Err("OutOfRange")
    ELSE Ok(BlockValue(b, ToNat(off)))

confirm_signature_prefix_only(b) ==
    \A k \in 1..Len(file_signature) : k <= Len(b) => file_signature[k] = b[k]

confirm_signature(b) ==
    IF Len(b) < Len(file_signature) THEN FALSE
    ELSE \A k \in 1..Len(file_signature) : file_signature[k] = b[k]

entry_index_to_entry_data(entry_index) ==
    [offset |-> UAdd(Shl(Shr(entry_index, 5), 5), U(block_size)),
     size   |-> Shl(U(1), ToNat(UAnd(entry_index, U(31))))]

IsCont(c) == c >= 128 /\ c <= 191

RECURSIVE Utf8Valid(_)
\* str::from_utf8(..).is_ok()
Utf8Valid(s) ==
    IF s = <<>> THEN TRUE
    ELSE LET c == s[1]
             need == IF c < 128 THEN 1
                     ELSE IF c >= 194 /\ c <= 223 THEN 2
                     ELSE IF c >= 224 /\ c <= 239 THEN 3
                     ELSE IF c >= 240 /\ c <= 244 THEN 4
                     ELSE 0
         IN  /\ need > 0
             /\ Len(s) >= need
             /\ \A k \in 2..need : IsCont(s[k])
             /\ (c = 224 => s[2] >= 160)
             /\ (c = 237 => s[2] <= 159)
             /\ (c = 240 => s[2] >= 144)
             /\ (c = 244 => s[2] <= 143)
             /\ Utf8Valid(SubSeq(s, need + 1, Len(s)))

RECURSIVE Utf16Packets(_)
\* record_utf16.chunks(2).map(|e| u16::from_be_bytes(..))
Utf16Packets(bytes) ==
    IF bytes = <<>> THEN <<>>
    ELSE <<256 * bytes[1] + bytes[2]>> \o Utf16Packets(SubSeq(bytes, 3, Len(bytes)))

IsHighSurrogate(u) == u >= 55296 /\ u <= 56319

IsLowSurrogate(u) == u >= 56320 /\ u <= 57343

RECURSIVE from_utf16_lossy(_)
\* String::from_utf16_lossy: the chars of the result
from_utf16_lossy(u) ==
    IF u = <<>> THEN <<>>
    ELSE IF ~IsHighSurrogate(u[1]) /\ ~IsLowSurrogate(u[1])
         THEN <<u[1]>> \o from_utf16_lossy(Tail(u))
    ELSE IF IsHighSurrogate(u[1]) /\ Len(u) >= 2 /\ IsLowSurrogate(u[2])
         THEN <<65536 + (u[1] - 55296) * 1024 + (u[2] - 56320)>>
                  \o from_utf16_lossy(SubSeq(u, 3, Len(u)))
    ELSE <<65533>> \o from_utf16_lossy(Tail(u))

\* struct DsStore
DsStore(name, children) == [name |-> name, children |-> children, indet_length |-> indet_length]

---------------------------------------------------------------------------
(* the state of one run of DsStoreParser::parse *)

VARIABLES
    buf,                \* the file's bytes (read_to_end)
    pc,                 \* the position of parse / generate_ds_store_tree
    outcome,            \* how parse ended: Ok(root_node), Err(msg) or a panic
    reads,              \* the offsets block_to_usize was called with, in call order
    slices,             \* the [from, to) spans sliced out of buf, in order
    root_offset, root_offset_check, entry_count, entry_indices, i,
    root_id, root_name, entry_id,
    offset, mode, record_count, iter, result,
    matches,            \* the cursor positions at which the terminator scan ended with a match
    cut,                \* the scan reached the end of the buffer (line 196)
    steps,              \* the steps parse has taken
    call                \* the last isolated call of block_to_usize: its arguments and result

vars == <<buf, pc, outcome, reads, slices, root_offset, root_offset_check, entry_count,
          entry_indices, i, root_id, root_name, entry_id, offset, mode, record_count,
          iter, result, matches, cut, steps, call>>

locals == <<root_offset, root_offset_check, entry_count, entry_indices, i, root_id,
            root_name, entry_id, offset, mode, record_count, iter, result, matches, cut>>

NoCall == [made |-> FALSE, offset |-> U(0), res |-> Err("")]

Running == [kind |-> "Running", err |-> "", name |-> <<>>, children |-> <<>>]

Returned(e) == [kind |-> "Err", err |-> e, name |-> <<>>, children |-> <<>>]

Panicked(why) == [kind |-> "Panic", err |-> why, name |-> <<>>, children |-> <<>>]

Parsed(name, children) == [kind |-> "Ok", err |-> "", name |-> name, children |-> children]

InitLocals ==
    /\ root_offset = U(0) /\ root_offset_check = U(0) /\ entry_count = U(0)
    /\ entry_indices = <<>> /\ i = U(0) /\ root_id = U(0) /\ root_name = <<>>
    /\ entry_id = U(0) /\ offset = U(0) /\ mode = U(0) /\ record_count = U(0)
    /\ iter = U(0) /\ result = <<>> /\ matches = <<>> /\ cut = FALSE

\* return Err(..) / the ? operator / a panic: parse is over
End(o) == pc' = "done" /\ outcome' = o

---------------------------------------------------------------------------
(* the files handed to parse *)

\* most records laid out in a generated directory page
MaxRecords == 2

\* most steps of one parse that are followed
StepCap == 1000

\* longest buffer handed to an isolated block_to_usize call
MaxBlockBuf == 5

RECURSIVE Zeros(_)
Zeros(n) == IF n = 0 THEN <<>> ELSE <<0>> \o Zeros(n - 1)

\* the 4 bytes of the block holding n (n < 2^31), most significant first
B32(n) == <<(n \div 16777216) % 256, (n \div 65536) % 256, (n \div 256) % 256, n % 256>>

AllOnes == <<255, 255, 255, 255>>

TopBit(n) == <<128, (n \div 65536) % 256, (n \div 256) % 256, n % 256>>

Tag == SubSeq(record_terminator, 1, 8)

\* a record of a directory page: its size block, its name bytes and what follows them
RecordKinds ==
    { [size |-> B32(1),  name |-> <<0, 68>>,             term |-> record_terminator],
      [size |-> B32(1),  name |-> <<216, 0>>,            term |-> Tag \o <<0, 0, 0, 2>>],
      [size |-> B32(2),  name |-> <<216, 61, 222, 0>>,   term |-> <<118, 83, 114, 110, 9>> \o record_terminator],
      [size |-> B32(0),  name |-> <<>>,                  term |-> <<118, 83>>],
      [size |-> AllOnes, name |-> <<0, 68>>,             term |-> record_terminator] }

RECURSIVE RecordSeqs(_)
RecordSeqs(n) ==
    IF n = 0 THEN {<<>>}
    ELSE RecordSeqs(n - 1) \cup
         {Append(rs, r) : rs \in {q \in RecordSeqs(n - 1) : Len(q) = n - 1}, r \in RecordKinds}

RECURSIVE RecordBytes(_)
RecordBytes(rs) ==
    IF rs = <<>> THEN <<>>
    ELSE rs[1].size \o rs[1].name \o rs[1].term \o RecordBytes(Tail(rs))

\* a directory page: mode tag, record count, records
Page(m, count, rs) == m \o count \o RecordBytes(rs)

DefaultRecord == [size |-> B32(1), name |-> <<0, 68>>, term |-> record_terminator]

Pages ==
    {Page(B32(0), B32(Len(rs)), rs) : rs \in RecordSeqs(MaxRecords)} \cup
    {Page(B32(0), AllOnes, rs) : rs \in RecordSeqs(MaxRecords - 1)} \cup
    {Page(m, B32(1), <<r>>) : m \in {B32(1), TopBit(0)}, r \in {DefaultRecord}}

DefaultPage == Page(B32(0), B32(2), <<DefaultRecord, DefaultRecord>>)

\* the header, the allocation index and the root's metadata
DefaultHead ==
    [sig |-> file_signature, a |-> B32(16), b |-> B32(16), entry_count |-> B32(2),
     e0 |-> B32(69), e1 |-> B32(96), name |-> <<114, 111, 111, 116>>,
     root_id |-> B32(0), entry_id |-> B32(1)]

Heads ==
    {DefaultHead} \cup
    {[DefaultHead EXCEPT !.sig = x] :
        x \in {<<1, 0, 0, 1, 66, 117, 100, 49>>, <<0, 0, 0, 1, 66, 117, 100, 50>>}} \cup
    {[DefaultHead EXCEPT !.b = x] : x \in {B32(17), TopBit(16), B32(0)}} \cup
    {[DefaultHead EXCEPT !.a = x] : x \in {B32(20), TopBit(16)}} \cup
    {[DefaultHead EXCEPT !.a = x, !.b = x] : x \in {B32(0), B32(20), B32(28), AllOnes, TopBit(16)}} \cup
    {[DefaultHead EXCEPT !.entry_count = x] : x \in {B32(0), B32(1), B32(3), AllOnes, TopBit(2)}} \cup
    {[DefaultHead EXCEPT !.e0 = x] : x \in {B32(0), B32(64), B32(96), AllOnes}} \cup
    {[DefaultHead EXCEPT !.e1 = x] : x \in {B32(64), B32(127), B32(128), TopBit(96)}} \cup
    {[DefaultHead EXCEPT !.name = x] :
        x \in {<<255, 111, 111, 116>>, <<226, 130, 172, 65>>, <<226, 130, 65, 65>>,
               <<65, 65, 65, 195>>}} \cup
    {[DefaultHead EXCEPT !.root_id = x] : x \in {B32(1), B32(2), AllOnes}} \cup
    {[DefaultHead EXCEPT !.entry_id = x] : x \in {B32(0), B32(2), TopBit(1)}}

\* the file: signature, root offset (0x08), root offset check (0x10), entry count and
\* allocation index from offset 20, root name and root id from offset 37, the index
\* block at 68 and the directory page at 100
Build(h, page) ==
    h.sig \o h.a \o Zeros(4) \o h.b \o h.entry_count \o Zeros(4) \o h.e0 \o h.e1
        \o <<0>> \o h.name \o h.root_id \o Zeros(23) \o h.entry_id \o Zeros(28) \o page

Files == {Build(h, DefaultPage) : h \in Heads} \cup {Build(DefaultHead, p) : p \in Pages}

\* every file, and every file cut short at any length
Buffers == UNION {{SubSeq(f, 1, n) : n \in 0..Len(f)} : f \in Files}

---------------------------------------------------------------------------
(* DsStoreParser::parse, lines 73-151 *)

Init ==
    /\ buf = <<>>
    /\ pc = "read"
    /\ outcome = Running
    /\ reads = <<>>
    /\ slices = <<>>
    /\ InitLocals
    /\ steps = 0
    /\ call = NoCall

\* reader.read_to_end(&mut buf): the file's bytes are in buf
ReadFile ==
    /\ pc = "read"
    /\ buf' \in Buffers
    /\ pc' = "signature"
    /\ UNCHANGED <<outcome, reads, slices, locals, steps, call>>

\* if !self.confirm_signature(&buf) { return Err(..) }
CheckSignature ==
    /\ pc = "signature"
    /\ IF ~confirm_signature(buf)
       THEN End(Returned("SignatureMismatch"))
       ELSE pc' = "root_offset" /\ outcome' = outcome
    /\ UNCHANGED <<buf, reads, slices, locals, call>>

\* let root_offset = self.block_to_usize(&buf, self.root_offset_location)? + self.block_size;
ReadRootOffset ==
    /\ pc = "root_offset"
    /\ LET r == block_to_usize(buf, U(root_offset_location))
       IN  /\ reads' = Append(reads, U(root_offset_location))
           /\ IF ~r.ok
              THEN End(Returned(r.err)) /\ root_offset' = root_offset
              ELSE /\ root_offset' = UAdd(r.val, U(block_size))
                   /\ pc' = "root_offset_check" /\ outcome' = outcome
    /\ UNCHANGED <<buf, slices, root_offset_check, entry_count, entry_indices, i, root_id,
                   root_name, entry_id, offset, mode, record_count, iter, result, matches,
                   cut, call>>

\* let root_offset_check = self.block_to_usize(&buf, self.root_offset_location_check)? + ..;
ReadRootOffsetCheck ==
    /\ pc = "root_offset_check"
    /\ LET r == block_to_usize(buf, U(root_offset_location_check))
       IN  /\ reads' = Append(reads, U(root_offset_location_check))
           /\ IF ~r.ok
              THEN End(Returned(r.err)) /\ root_offset_check' = root_offset_check
              ELSE /\ root_offset_check' = UAdd(r.val, U(block_size))
                   /\ pc' = "compare" /\ outcome' = outcome
    /\ UNCHANGED <<buf, slices, root_offset, entry_count, entry_indices, i, root_id,
                   root_name, entry_id, offset, mode, record_count, iter, result, matches,
                   cut, call>>

RootOffsetsDifferLowByte(x, y) == x[1] # y[1]

\* root_offset != root_offset_check
RootOffsetsDiffer(x, y) == x # y

\* if root_offset != root_offset_check { return Err(..) }
CompareRootOffsets ==
    /\ pc = "compare"
    /\ IF RootOffsetsDiffer(root_offset, root_offset_check)
       THEN End(Returned("InconsistentHeader"))
       ELSE pc' = "entry_count" /\ outcome' = outcome
    /\ UNCHANGED <<buf, reads, slices, locals, call>>

\* let entry_count = self.block_to_usize(&buf, root_offset)?;
ReadEntryCount ==
    /\ pc = "entry_count"
    /\ LET r == block_to_usize(buf, root_offset)
       IN  /\ reads' = Append(reads, root_offset)
           /\ IF ~r.ok
              THEN End(Returned(r.err)) /\ entry_count' = entry_count
              ELSE entry_count' = r.val /\ pc' = "entries" /\ outcome' = outcome
    /\ UNCHANGED <<buf, slices, root_offset, root_offset_check, entry_indices, i, root_id,
                   root_name, entry_id, offset, mode, record_count, iter, result, matches,
                   cut, call>>

EntryLocationNoSkip(ro, k) == UAdd(UAdd(ro, U(block_size)), UMulNat(k, block_size))

\* root_offset + self.block_size + (self.block_size * (i + 1))
EntryLocation(ro, k) == UAdd(UAdd(ro, U(block_size)), UMulNat(UAdd(k, U(1)), block_size))

\* for i in 0..entry_count { entry_indices.push(self.block_to_usize(..)?); }
ReadEntry ==
    /\ pc = "entries"
    /\ ULt(i, entry_count)
    /\ LET at == EntryLocation(root_offset, i)
           r  == block_to_usize(buf, at)
       IN  /\ reads' = Append(reads, at)
           /\ IF ~r.ok
              THEN End(Returned(r.err)) /\ UNCHANGED <<entry_indices, i>>
              ELSE /\ entry_indices' = Append(entry_indices, r.val)
                   /\ i' = UAdd(i, U(1))
                   /\ UNCHANGED <<pc, outcome>>
    /\ UNCHANGED <<buf, slices, root_offset, root_offset_check, entry_count, root_id,
                   root_name, entry_id, offset, mode, record_count, iter, result, matches,
                   cut, call>>

\* root_offset + ((self.block_size * self.index_padding) % root_offset) + (2 * self.block_size)
RootContentOffset(ro) ==
    UAdd(UAdd(ro, UMod(U(block_size * index_padding), ro)), U(2 * block_size))

\* the loop is over; let root_id = self.block_to_usize(&buf, root_content_offset + (block_size * 2) + 1)?;
ReadRootId ==
    /\ pc = "entries"
    /\ ~ULt(i, entry_count)
    /\ LET at == UAdd(UAdd(RootContentOffset(root_offset), U(block_size * 2)), U(1))
           r  == block_to_usize(buf, at)
       IN  /\ reads' = Append(reads, at)
           /\ IF ~r.ok
              THEN End(Returned(r.err)) /\ root_id' = root_id
              ELSE root_id' = r.val /\ pc' = "root_name" /\ outcome' = outcome
    /\ UNCHANGED <<buf, slices, root_offset, root_offset_check, entry_count, entry_indices,
                   i, root_name, entry_id, offset, mode, record_count, iter, result, matches,
                   cut, call>>

\* let root_name: String = match str::from_utf8(&buf[rco + block_size + 1 .. rco + block_size * 2 + 1])
DecodeRootName ==
    /\ pc = "root_name"
    /\ LET from == UAdd(UAdd(RootContentOffset(root_offset), U(block_size)), U(1))
           to   == UAdd(UAdd(RootContentOffset(root_offset), U(block_size * 2)), U(1))
       IN  /\ slices' = Append(slices, <<from, to>>)
           /\ IF LenBelow(buf, to)
              THEN End(Panicked("SliceOutOfRange")) /\ root_name' = root_name
              ELSE LET raw == Slice(buf, ToNat(from), ToNat(to))
                   IN  IF ~Utf8Valid(raw)
                       THEN End(Returned("InvalidEncoding")) /\ root_name' = root_name
                       ELSE root_name' = raw /\ pc' = "index" /\ outcome' = outcome
    /\ UNCHANGED <<buf, reads, root_offset, root_offset_check, entry_count, entry_indices,
                   i, root_id, entry_id, offset, mode, record_count, iter, result, matches,
                   cut, call>>

\* entry_indices[k] panics unless k < entry_indices.len()
IndexInBounds(k) == ULt(k, U(Len(entry_indices)))

\* let (index_offset, _) = self.entry_index_to_entry_data(entry_indices[root_id]);
\* let entry_id = self.block_to_usize(&buf, index_offset)?;
ReadEntryId ==
    /\ pc = "index"
    /\ IF ~IndexInBounds(root_id)
       THEN End(Panicked("IndexOutOfBounds")) /\ UNCHANGED <<reads, entry_id>>
       ELSE LET index_offset == entry_index_to_entry_data(entry_indices[ToNat(root_id) + 1]).offset
                r == block_to_usize(buf, index_offset)
            IN  /\ reads' = Append(reads, index_offset)
                /\ IF ~r.ok
                   THEN End(Returned(r.err)) /\ entry_id' = entry_id
                   ELSE entry_id' = r.val /\ pc' = "entry" /\ outcome' = outcome
    /\ UNCHANGED <<buf, slices, root_offset, root_offset_check, entry_count, entry_indices,
                   i, root_id, root_name, offset, mode, record_count, iter, result, matches,
                   cut, call>>

\* let (entry_offset, _) = self.entry_index_to_entry_data(entry_indices[entry_id]);
\* generate_ds_store_tree(&buf, entry_offset) is entered
LookupEntry ==
    /\ pc = "entry"
    /\ IF ~IndexInBounds(entry_id)
       THEN End(Panicked("IndexOutOfBounds")) /\ offset' = offset
       ELSE /\ offset' = entry_index_to_entry_data(entry_indices[ToNat(entry_id) + 1]).offset
            /\ pc' = "mode" /\ outcome' = outcome
    /\ UNCHANGED <<buf, reads, slices, root_offset, root_offset_check, entry_count,
                   entry_indices, i, root_id, root_name, entry_id, mode, record_count, iter,
                   result, matches, cut, call>>

---------------------------------------------------------------------------
(* DsStoreParser::generate_ds_store_tree, lines 153-219 *)

\* let mode = self.block_to_usize(&buf, offset)?;  if mode != 0 { panic!(..) }
ReadMode ==
    /\ pc = "mode"
    /\ LET r == block_to_usize(buf, offset)
       IN  /\ reads' = Append(reads, offset)
           /\ IF ~r.ok
              THEN End(Returned(r.err)) /\ mode' = mode
              ELSE /\ mode' = r.val
                   /\ IF r.val # U(0)
                      THEN End(Panicked("UnsupportedPageMode"))
                      ELSE pc' = "record_count" /\ outcome' = outcome
    /\ UNCHANGED <<buf, slices, root_offset, root_offset_check, entry_count, entry_indices,
                   i, root_id, root_name, entry_id, offset, record_count, iter, result,
                   matches, cut, call>>

\* let record_count = self.block_to_usize(&buf, offset + self.block_size)?;
ReadRecordCount ==
    /\ pc = "record_count"
    /\ LET at == UAdd(offset, U(block_size))
           r  == block_to_usize(buf, at)
       IN  /\ reads' = Append(reads, at)
           /\ IF ~r.ok
              THEN End(Returned(r.err)) /\ record_count' = record_count
              ELSE record_count' = r.val /\ pc' = "records" /\ outcome' = outcome
    /\ UNCHANGED <<buf, slices, root_offset, root_offset_check, entry_count, entry_indices,
                   i, root_id, root_name, entry_id, offset, mode, iter, result, matches,
                   cut, call>>

\* one pass of `for _ in 0..record_count` up to the push of the record (lines 168-191)
ReadRecord ==
    /\ pc = "records"
    /\ ULt(iter, record_count)
    /\ LET at == UAdd(offset, U(block_size * 2))
           r  == block_to_usize(buf, at)
       IN  /\ reads' = Append(reads, at)
           /\ IF ~r.ok
              THEN End(Returned(r.err)) /\ UNCHANGED <<slices, result>>
              ELSE LET from == UAdd(offset, U(block_size * 3))
                       to   == UAdd(from, UMulNat(r.val, 2))
                   IN  /\ slices' = Append(slices, <<from, to>>)
                       /\ IF LenBelow(buf, to)
                          THEN End(Panicked("SliceOutOfRange")) /\ result' = result
                          ELSE LET record_utf16  == Slice(buf, ToNat(from), ToNat(to))
                                   utf16_packets == Utf16Packets(record_utf16)
                                   record        == from_utf16_lossy(utf16_packets)
                               IN  /\ result' = Append(result, DsStore(record, <<>>))
                                   /\ pc' = "scan" /\ outcome' = outcome
    /\ UNCHANGED <<buf, root_offset, root_offset_check, entry_count, entry_indices, i,
                   root_id, root_name, entry_id, offset, mode, record_count, iter, matches,
                   cut, call>>

\* if buf.len() < offset + (self.block_size * 2)
ScanOutOfBuffer(b, off) == LenBelow(b, UAdd(off, U(block_size * 2)))

\* let pattern = &buf[offset .. offset + (self.block_size * 2)];
Pattern(b, off) == Slice(b, off, off + block_size * 2)

Min(x, y) == IF x <= y THEN x ELSE y

\* for (a, b) in self.record_terminator.iter().zip(pattern): no pair differs
TerminatorMatches(pattern) ==
    \A k \in 1..Min(Len(record_terminator), Len(pattern)) : record_terminator[k] = pattern[k]

ScanCutFails(name, res) == Returned("OutOfRange")

\* return Ok(result) out of the scan; parse makes the nodes the root's children
ScanCutOutcome(name, res) == Parsed(name, res)

ScanAdvanceStalls(off) == off

\* offset += 1
ScanAdvance(off) == UAdd(off, U(1))

\* one pass of `while !end_of_record` (lines 194-213); on a match the while loop is
\* left, offset += self.block_size (line 215) and the for loop goes on
ScanStep ==
    /\ pc = "scan"
    /\ IF ScanOutOfBuffer(buf, offset)
       THEN /\ End(ScanCutOutcome(root_name, result))
            /\ cut' = TRUE
            /\ UNCHANGED <<offset, iter, matches>>
       ELSE IF TerminatorMatches(Pattern(buf, ToNat(offset)))
       THEN /\ offset' = UAdd(offset, U(block_size))
            /\ iter' = UAdd(iter, U(1))
            /\ matches' = Append(matches, offset)
            /\ pc' = "records"
            /\ UNCHANGED <<outcome, cut>>
       ELSE /\ offset' = ScanAdvance(offset)
            /\ UNCHANGED <<pc, outcome, iter, matches, cut>>
    /\ UNCHANGED <<buf, reads, slices, root_offset, root_offset_check, entry_count,
                   entry_indices, i, root_id, root_name, entry_id, mode, record_count,
                   result, call>>

\* the for loop is over: Ok(result); parse pushes the nodes and returns Ok(root_node)
FinishTree ==
    /\ pc = "records"
    /\ ~ULt(iter, record_count)
    /\ End(Parsed(root_name, result))
    /\ UNCHANGED <<buf, reads, slices, locals, call>>

\* the statements of parse once the file has been read
Statement ==
    \/ CheckSignature
    \/ ReadRootOffset
    \/ ReadRootOffsetCheck
    \/ CompareRootOffsets
    \/ ReadEntryCount
    \/ ReadEntry
    \/ ReadRootId
    \/ DecodeRootName
    \/ ReadEntryId
    \/ LookupEntry
    \/ ReadMode
    \/ ReadRecordCount
    \/ ReadRecord
    \/ ScanStep
    \/ FinishTree

\* a step of parse: one statement, counted
Step == steps < StepCap /\ steps' = steps + 1 /\ Statement

Next == ReadFile \/ Step

Spec == Init /\ [][Next]_vars

\* Step can be taken exactly while parse is running
InParse == pc \notin {"read", "done"} /\ steps < StepCap

\* parse is straight-line sequential code: once entered, a step that can be taken is
\* taken.  This is weak fairness of Step, WF_vars(Step), with ENABLED <<Step>>_vars
\* written as the state predicate it is equal to.
StepFairness == []<>(~InParse) \/ []<><<Step>>_vars

FairSpec == Spec /\ StepFairness

---------------------------------------------------------------------------
(* block_to_usize on its own *)

ByteSamples == {0, 1, 128, 255}

RECURSIVE SeqsUpTo(_)
SeqsUpTo(n) ==
    IF n = 0 THEN {<<>>}
    ELSE SeqsUpTo(n - 1) \cup
         {Append(q, x) : q \in {t \in SeqsUpTo(n - 1) : Len(t) = n - 1}, x \in ByteSamples}

\* offsets parse can pass: a block's value plus a few blocks
OffsetSamples(b) ==
    {U(k) : k \in 0..(Len(b) + 2)} \cup
    {<<65535, 65535, 0, 0>>, <<3, 0, 1, 0>>}

InitBlock ==
    /\ buf \in SeqsUpTo(MaxBlockBuf)
    /\ pc = "block"
    /\ outcome = Running
    /\ reads = <<>>
    /\ slices = <<>>
    /\ InitLocals
    /\ steps = 0
    /\ call = NoCall

ReadBlock ==
    /\ pc = "block"
    /\ \E off \in OffsetSamples(buf) :
           call' = [made |-> TRUE, offset |-> off, res |-> block_to_usize(buf, off)]
    /\ UNCHANGED <<buf, pc, outcome, reads, slices, locals, steps>>

SpecBlock == InitBlock /\ [][ReadBlock]_vars

---------------------------------------------------------------------------
(* what the claims refer to, stated on the bytes of the file *)

\* b0<<24 | b1<<16 | b2<<8 | b3 for the four bytes at the 0-based offset o
BigEndianAt(b, o) == <<b[o + 3] * 256 + b[o + 4], b[o + 1] * 256 + b[o + 2], 0, 0>>

\* 2^32 - 1
MaxBlock == <<65535, 65535, 0, 0>>

SignatureBytes == <<0, 0, 0, 1, 66, 117, 100, 49>>

TerminatorBytes == <<118, 83, 114, 110, 108, 111, 110, 103, 0, 0, 0, 1>>

HasSignature == Len(buf) >= 8 /\ SubSeq(buf, 1, 8) = SignatureBytes

\* the blocks at 0x08 and 0x10 both exist and differ
HeaderDiffers == HasSignature /\ Len(buf) >= 20 /\ SubSeq(buf, 9, 12) # SubSeq(buf, 17, 20)

\* the allocation-index loop ran to its end
IndexBuilt == pc \in {"root_name", "index", "entry", "mode", "record_count", "records", "scan"}

InPage == {"records", "scan"}

\* C1: every parse ends by returning a root node or a failure value; no input makes
\* it end by a panic (a name span past the end of the buffer, a logical index that is
\* not below the number of allocation entries, ...).
C1_ParseReturns == outcome.kind \in {"Running", "Ok", "Err"}

\* C2: a page whose mode tag is not 0 ends the parse with the returned failure
\* UnsupportedPageMode, the mode tag being the last block read and no record bytes sliced.
C2_ModeFailureReturned ==
    (pc = "done" /\ mode # U(0)) =>
        /\ outcome = Returned("UnsupportedPageMode")
        /\ reads[Len(reads)] = offset
        /\ Len(slices) = 1

\* C3: when the signature matches and the blocks at 0x08 and 0x10 differ, the only
\* blocks ever read are those two and parse ends with InconsistentHeader.
C3_InconsistentHeader ==
    HeaderDiffers =>
        /\ \A k \in 1..Len(reads) : reads[k] = (IF k = 1 THEN U(8) ELSE U(16))
        /\ Len(reads) <= 2
        /\ pc = "done" => outcome = Returned("InconsistentHeader") /\ reads = <<U(8), U(16)>>

C3_Witness ==
    /\ pc = "done" /\ HeaderDiffers /\ outcome.err = "InconsistentHeader"
    /\ BigEndianAt(buf, 8)[1] = BigEndianAt(buf, 16)[1]

\* C4: for offset + 4 <= len(buffer) block_to_usize returns the big-endian value
\* b0<<24 | b1<<16 | b2<<8 | b3 of the four bytes at the offset.
C4_BigEndian ==
    (call.made /\ IsSmall(call.offset) /\ ToNat(call.offset) + 4 <= Len(buf)) =>
        call.res = Ok(BigEndianAt(buf, ToNat(call.offset)))

C4_Witness ==
    /\ call.made /\ call.res.ok /\ call.offset = U(1)
    /\ buf[2] >= 128 /\ buf[3] = 255 /\ buf[5] = 1

\* C5: block_to_usize returns OutOfRange exactly when offset + 4 > len(buffer), and a
\* value for every other offset.
C5_OutOfRange ==
    call.made =>
        LET past == ~IsSmall(call.offset) \/ ToNat(call.offset) + 4 > Len(buf)
        IN  /\ past <=> call.res = Err("OutOfRange")
            /\ ~past <=> call.res.ok

C5_Witness ==
    /\ call.made /\ Len(buf) >= 4 /\ call.offset = U(Len(buf) - 4) /\ call.res.ok

\* C6: a terminator scan that has fewer than 8 bytes left from its cursor ends the
\* parse successfully with the records decoded so far, the one being scanned included,
\* which are at most record_count.
C6_CutScanReturnsRecords ==
    [][(pc = "scan" /\ Len(buf) - ToNat(offset) < 8) =>
           /\ pc' = "done"
           /\ outcome' = Parsed(root_name, result)
           /\ Len(result) = ToNat(iter) + 1
           /\ ULe(U(Len(result)), record_count)]_vars

C6_Witness ==
    /\ cut /\ outcome.kind = "Ok" /\ Len(outcome.children) = 2
    /\ outcome.children[2].name = <<65533>>

\* C7: confirm_signature holds exactly of the buffers of at least 8 bytes that start
\* with 00 00 00 01 42 75 64 31; for any other buffer parse returns the signature
\* failure and reads no block.
C7_Signature ==
    /\ confirm_signature(buf) <=> HasSignature
    /\ pc \notin {"read", "signature"} =>
           (outcome = Returned("SignatureMismatch") <=> ~HasSignature)
    /\ ~HasSignature => reads = <<>> /\ slices = <<>> /\ pc \in {"read", "signature", "done"}

C7_Witness ==
    /\ pc = "done" /\ outcome = Returned("SignatureMismatch")
    /\ Len(buf) = 5 /\ buf = SubSeq(SignatureBytes, 1, 5)

\* C8: parse finishes; it takes at most 14 + 2 * len(buffer) steps and both loops run
\* at most len(buffer) times whatever the counts in the file; the scan cursor moves
\* forward on every non-matching step and never back.
C8_Terminates ==
    /\ (pc # "read") ~> (pc = "done")
    /\ [](steps <= 14 + 2 * Len(buf))
    /\ [](ULe(i, U(Len(buf))) /\ ULe(iter, U(Len(buf))))
    /\ [][(pc = "scan" /\ pc' = "scan") => ULt(offset, offset')]_vars
    /\ [][(pc \in InPage /\ pc' \in InPage) => ULe(offset, offset')]_vars

C8_Witness ==
    /\ pc = "done" /\ record_count = MaxBlock /\ Len(result) = 1 /\ Len(matches) = 1

\* C9 as stated: the allocation index has entry_count entries and entry k (0-based) is
\* the block at root_offset + 4 + 4k.
C9_EntriesFollowCount ==
    IndexBuilt =>
        /\ U(Len(entry_indices)) = entry_count
        /\ \A k \in 1..Len(entry_indices) :
               LET at == ToNat(root_offset) + 4 + 4 * (k - 1)
               IN  at + 4 <= Len(buf) /\ entry_indices[k] = BigEndianAt(buf, at)

\* C9 amended: the allocation index has entry_count entries (entry_count being the
\* block at root_offset) and entry k (0-based) is the block at root_offset + 8 + 4k:
\* the block after entry_count is skipped.
C9_EntriesSkipOneBlock ==
    /\ \A k \in 1..Len(entry_indices) :
           LET at == ToNat(root_offset) + 8 + 4 * (k - 1)
           IN  at + 4 <= Len(buf) /\ entry_indices[k] = BigEndianAt(buf, at)
    /\ IndexBuilt =>
           /\ U(Len(entry_indices)) = entry_count
           /\ entry_count = BigEndianAt(buf, ToNat(root_offset))

C9_Witness ==
    /\ IndexBuilt /\ Len(entry_indices) = 3 /\ entry_indices[1] # entry_indices[2]

\* C10: the scan ends with a match only where all 12 bytes at the cursor are the
\* terminator 76 53 72 6E 6C 6F 6E 67 00 00 00 01.
C10_MatchIsWholeTerminator ==
    \A k \in 1..Len(matches) :
        LET p == ToNat(matches[k])
        IN  p + 12 <= Len(buf) /\ SubSeq(buf, p + 1, p + 12) = TerminatorBytes

====
